---- MODULE Spec2Model ----
(***************************************************************************)
(* pyDQueue: the task graph of pydqueue/core.py (Task, QTask, Queue) as a  *)
(* state machine.  Task objects are created from the process-wide          *)
(* TASK_COUNTER, wrapped into QTask objects by Queue(tasks) / append,      *)
(* linked by add_parent / remove_parent and executed by Queue.run, one     *)
(* loop iteration per step.  Task bodies are opaque callables: what a body *)
(* returns or raises is an input of the step that invokes it.  The older   *)
(* pair pydqueue/task.py and pydqueue/queue.py is modelled beside it, with *)
(* variables of its own.                                                   *)
(***************************************************************************)
EXTENDS Integers, Sequences, FiniteSets, TLC

(* ---------------------------- bounds ----------------------------------- *)
MaxId == 2          \* Task() is called only while TASK_COUNTER < MaxId
MaxTasks == 2       \* tasks per graph built by Queue(tasks) and append
MaxQueues == 1      \* graphs constructed in specification Spec
MaxGraphs == 2      \* graphs constructed in specification SpecGraphs
MaxParents == 2     \* length of a parents list
MaxArgs == 2        \* arguments of one add_parents call
MaxRuns == 2        \* calls of Queue.run in one behaviour
RunTasks == 3       \* tasks of the graph specification SpecRun starts from
OldTasks == 3       \* tasks of the queue.Queue specification SpecOld starts from

(* ---------------------------- state ------------------------------------ *)
VARIABLES
    TASK_COUNTER,   \* core.TASK_COUNTER: the value next(TASK_COUNTER) returns
    taskObjs,       \* ids of the core.Task objects constructed so far
    queues,         \* the core.Queue objects: queues[g] is Queue.tasks of graph g
    pc,             \* "idle", or "run" while Queue.run is inside its for loop
    rq,             \* the graph whose run is executing
    itask,          \* position (1-based) of the task the loop reaches next
    initial,        \* run's local `initial`, as its set of keys
    kwargs,         \* run's local `kwargs`, as its set of keys
    stop,           \* run's stop_queue_on_error
    calls,          \* the invocations of a body made by the call of run that is
                    \* executing or has just ended
    clock,          \* number of get_time() readings so far
    nruns,          \* calls of Queue.run so far
    applied,        \* parents the last operation appended to a parents list
    last,           \* the error the last operation raised, "None" if it returned
    \* the older pair task.py / queue.py
    otasks,         \* the task.Task objects, otasks[k] has id k - 1; the
                    \* queue.Queue under study holds them in this order
    opc,            \* "idle", or "run" while queue.Queue.run is inside its loop
    oitask,         \* position of the task that loop reaches next
    oflag,          \* run's local `flag`
    oinitial,       \* run's initial_input_data, as its set of keys
    ocalls,         \* the invocations made by the call of run that is
                    \* executing or has just ended
    oclock,         \* number of task.get_time() readings so far
    oruns,          \* calls of queue.Queue.run so far
    olast           \* the error the last operation on the older pair raised

corevars == <<TASK_COUNTER, taskObjs, queues, pc, rq, itask, initial, kwargs,
              stop, calls, clock, nruns, applied, last>>

oldvars == <<otasks, opc, oitask, oflag, oinitial, ocalls, oclock, oruns, olast>>

vars == <<corevars, oldvars>>

runvars == <<pc, rq, itask, initial, kwargs, stop, clock, nruns>>

(* ---------------------------- values ----------------------------------- *)
\* class TaskFlag(Enum): the member names
TaskFlag == {"not_started", "failed", "succeeded", "error", "none"}

\* Python values a QTask.output can hold.  A dict is modelled by its key set;
\* a tuple (success, data), as the test's Simulation.run returns, by its
\* first component; None is the value QTask.__init__ assigns.
NoneVal == [kind |-> "None", keys |-> {}, success |-> FALSE]
DictVal(ks) == [kind |-> "dict", keys |-> ks, success |-> FALSE]
TupleVal(s) == [kind |-> "tuple", keys |-> {}, success |-> s]

\* what a body can return: {}, {'flag': ...}, (True, {...}), (False, {...})
BodyReturns == {DictVal({}), DictVal({"flag"}), TupleVal(TRUE), TupleVal(FALSE)}

\* the `initial` argument of run: None / {} or a dict with one key
InitialArgs == {{}, {"input_data"}}

\* isinstance(v, dict)
IsDict(v) == v.kind = "dict"

\* `key in v` raises TypeError when v is None
InRaises(v) == v.kind = "None"

\* `key in v` for a dict (its keys) or a tuple (its elements)
KeyIn(key, v) == v.kind = "dict" /\ key \in v.keys

(* ---------------------------- Task / QTask ----------------------------- *)
\* A reference to a task object: [q |-> g, i |-> k] is queues[g][k]; q = 0 is
\* a core.Task that is not wrapped, with id i.
TaskRef(k) == [q |-> 0, i |-> k]
QRef(g, k) == [q |-> g, i |-> k]

\* QTask.__init__(_task, _queue)
NewQTask(id) ==
    [id |-> id, parents |-> <<>>, flag |-> "not_started", output |-> NoneVal,
     err |-> FALSE, start_time |-> 0, end_time |-> 0]

\* all references that exist in a state
AllRefs ==
    {TaskRef(k) : k \in taskObjs} \cup
    UNION {{QRef(g, k) : k \in 1..Len(queues[g])} : g \in 1..Len(queues)}

Deref(r) == queues[r.q][r.i]

\* Task.id
IdOf(r) == IF r.q = 0 THEN r.i ELSE Deref(r).id

\* Task.name: f'{task_clsname}<{id}>', one task class
NameOf(t) == <<"Task", t.id>>

\* QTask.has_parents
has_parents(t) == Len(t.parents) > 0

\* mutant: a QTask of any graph passes the membership test
InQueue_AnyGraph(r, g) == r.q # 0

\* `parent_task in self._queue.tasks`: identity search of the list
InQueue(r, g) == \E k \in 1..Len(queues[g]) : QRef(g, k) = r

(* ---------------------------- construction ----------------------------- *)
\* no object of the older pair has been constructed
NoOldTasks ==
    /\ otasks = <<>>
    /\ opc = "idle"
    /\ oitask = 0
    /\ oflag = "none"
    /\ oinitial = {}
    /\ ocalls = <<>>
    /\ oclock = 0
    /\ oruns = 0
    /\ olast = "None"

Init ==
    /\ TASK_COUNTER = 0
    /\ taskObjs = {}
    /\ queues = <<>>
    /\ pc = "idle"
    /\ rq = 0
    /\ itask = 0
    /\ initial = {}
    /\ kwargs = {}
    /\ stop = FALSE
    /\ calls = <<>>
    /\ clock = 0
    /\ nruns = 0
    /\ applied = 0
    /\ last = "None"
    /\ NoOldTasks

\* Task.__init__(run, task_clsname): id = next(TASK_COUNTER)
NewTask ==
    /\ pc = "idle"
    /\ TASK_COUNTER < MaxId
    /\ taskObjs' = taskObjs \cup {TASK_COUNTER}
    /\ TASK_COUNTER' = TASK_COUNTER + 1
    /\ last' = "None"
    /\ calls' = <<>>
    /\ applied' = 0
    /\ UNCHANGED <<queues, runvars>>
    /\ UNCHANGED oldvars

\* the lists over S of length at most n
ListsUpTo(S, n) == UNION {[1..m -> S] : m \in 0..n}

\* mutant: Queue(tasks) also puts the tasks of the graphs built earlier back
\* to their initial state
NewQueue_ResetsEarlier(maxq) ==
    /\ pc = "idle"
    /\ Len(queues) < maxq
    /\ \E ts \in ListsUpTo(taskObjs, MaxTasks) :
          queues' = Append([g \in 1..Len(queues) |->
                               [k \in 1..Len(queues[g]) |-> NewQTask(queues[g][k].id)]],
                           [k \in 1..Len(ts) |-> NewQTask(ts[k])])
    /\ TASK_COUNTER' = 0
    /\ last' = "None"
    /\ calls' = <<>>
    /\ applied' = 0
    /\ UNCHANGED <<taskObjs, runvars>>
    /\ UNCHANGED oldvars

\* Queue.__init__(tasks): resets TASK_COUNTER, wraps every task
NewQueue(maxq) ==
    /\ pc = "idle"
    /\ Len(queues) < maxq
    /\ \E ts \in ListsUpTo(taskObjs, MaxTasks) :
          queues' = Append(queues, [k \in 1..Len(ts) |-> NewQTask(ts[k])])
    /\ TASK_COUNTER' = 0
    /\ last' = "None"
    /\ calls' = <<>>
    /\ applied' = 0
    /\ UNCHANGED <<taskObjs, runvars>>
    /\ UNCHANGED oldvars

\* Queue.append(task)
QAppend(g, id) ==
    /\ pc = "idle"
    /\ Len(queues[g]) < MaxTasks
    /\ queues' = [queues EXCEPT ![g] = Append(@, NewQTask(id))]
    /\ last' = "None"
    /\ calls' = <<>>
    /\ applied' = 0
    /\ UNCHANGED <<TASK_COUNTER, taskObjs, runvars>>
    /\ UNCHANGED oldvars

(* ---------------------------- parents ---------------------------------- *)
\* mutant: add_parent without the comparison of the ids
AddParentError_NoSelfCheck(g, c, p) ==
    IF ~InQueue(p, g) THEN "KeyError"
    ELSE IF queues[g][c].id < IdOf(p) /\ has_parents(Deref(p)) THEN "Ordering"
    ELSE "None"

\* mutant: add_parent refuses every parent with a greater id, with or without
\* parents of its own
AddParentError_AnyLaterParent(g, c, p) ==
    IF ~InQueue(p, g) THEN "KeyError"
    ELSE IF queues[g][c].id = IdOf(p) THEN "SelfReference"
    ELSE IF queues[g][c].id < IdOf(p) THEN "Ordering"
    ELSE "None"

\* mutant: add_parent without the comparison of the ids of a parent that has
\* parents
AddParentError_NoOrderCheck(g, c, p) ==
    IF ~InQueue(p, g) THEN "KeyError"
    ELSE IF queues[g][c].id = IdOf(p) THEN "SelfReference"
    ELSE "None"

\* The error QTask.add_parent(parent_task) raises on task c of graph g, "None"
\* when it returns.
AddParentError(g, c, p) ==
    IF ~InQueue(p, g) THEN "KeyError"
    ELSE IF queues[g][c].id = IdOf(p) THEN "SelfReference"
    ELSE IF queues[g][c].id < IdOf(p) /\ has_parents(Deref(p)) THEN "Ordering"
    ELSE "None"

\* the parents list after QTask.add_parent(parent_task)
AddParentResult(g, c, p) ==
    IF AddParentError(g, c, p) = "None"
    THEN Append(queues[g][c].parents, p)
    ELSE queues[g][c].parents

\* QTask.add_parent
add_parent(g, c, p) ==
    /\ pc = "idle"
    /\ Len(queues[g][c].parents) < MaxParents
    /\ last' = AddParentError(g, c, p)
    /\ queues' = [queues EXCEPT ![g][c].parents = AddParentResult(g, c, p)]
    /\ calls' = <<>>
    /\ applied' = Len(AddParentResult(g, c, p)) - Len(queues[g][c].parents)
    /\ UNCHANGED <<TASK_COUNTER, taskObjs, runvars>>
    /\ UNCHANGED oldvars

\* mutant: add_parents appends all of its arguments or, when one of them is
\* refused, none
AddParentsLoop_AllOrNothing(g, c, ps, n, acc) ==
    LET bad == {k \in n..Len(ps) : AddParentError(g, c, ps[k]) # "None"}
    IN IF bad = {}
       THEN [parents |-> acc \o SubSeq(ps, n, Len(ps)), err |-> "None"]
       ELSE [parents |-> acc,
             err |-> AddParentError(g, c, ps[CHOOSE k \in bad : \A j \in bad : k <= j])]

\* The loop of QTask.add_parents over the arguments ps from position n on:
\* acc is the parents list so far; the loop ends at the first argument that
\* add_parent refuses.  (add_parent reads the parents of its argument, never
\* those of the task itself: the argument that is the task is refused by the
\* comparison of the ids.)
RECURSIVE AddParentsLoop(_, _, _, _, _)
AddParentsLoop(g, c, ps, n, acc) ==
    IF n > Len(ps) THEN [parents |-> acc, err |-> "None"]
    ELSE IF AddParentError(g, c, ps[n]) # "None"
    THEN [parents |-> acc, err |-> AddParentError(g, c, ps[n])]
    ELSE AddParentsLoop(g, c, ps, n + 1, Append(acc, ps[n]))

\* QTask.add_parents(*parent_tasks), also called with one list
add_parents(g, c, ps) ==
    /\ pc = "idle"
    /\ Len(queues[g][c].parents) + Len(ps) <= MaxParents
    /\ LET r == AddParentsLoop(g, c, ps, 1, queues[g][c].parents)
       IN /\ queues' = [queues EXCEPT ![g][c].parents = r.parents]
          /\ last' = r.err
          /\ applied' = Len(r.parents) - Len(queues[g][c].parents)
    /\ calls' = <<>>
    /\ UNCHANGED <<TASK_COUNTER, taskObjs, runvars>>
    /\ UNCHANGED oldvars

\* QTask.remove_parent_by_name(parent_name): `for i, parent in self.parents`
\* unpacks each parent, a QTask, into two names, which raises TypeError at
\* the first parent; with no parents the loop body is not reached and the
\* IndexError after the loop is raised.  Nothing is ever removed.
RemoveByNameError(g, c, name) ==
    IF Len(queues[g][c].parents) > 0 THEN "TypeError" ELSE "IndexError"

remove_parent_by_name(g, c, name) ==
    /\ pc = "idle"
    /\ last' = RemoveByNameError(g, c, name)
    /\ calls' = <<>>
    /\ applied' = 0
    /\ UNCHANGED <<TASK_COUNTER, taskObjs, queues, runvars>>
    /\ UNCHANGED oldvars

\* mutant: pop removes the first element whatever the index
Pop_Front(s, index) == Tail(s)

\* list.pop(index) for index >= 0: the list without its element at position
\* index + 1
Pop(s, index) == [k \in 1..(Len(s) - 1) |-> IF k <= index THEN s[k] ELSE s[k + 1]]

\* QTask.remove_parent(index), index >= 0
remove_parent(g, c, index) ==
    /\ pc = "idle"
    /\ IF index < Len(queues[g][c].parents)
       THEN /\ queues' = [queues EXCEPT ![g][c].parents = Pop(@, index)]
            /\ last' = "None"
       ELSE /\ queues' = queues
            /\ last' = "IndexError"
    /\ calls' = <<>>
    /\ applied' = 0
    /\ UNCHANGED <<TASK_COUNTER, taskObjs, runvars>>
    /\ UNCHANGED oldvars

(* ---------------------------- Queue.run -------------------------------- *)
\* mutant: check() accepts every graph
check_Skipped(g) == TRUE

\* Queue.check(): no name occurs twice in the task list
check(g) ==
    \A j, k \in 1..Len(queues[g]) :
        j # k => NameOf(queues[g][j]) # NameOf(queues[g][k])

\* what a body does when it is invoked: returns a value or raises
Raise == [kind |-> "raise", keys |-> {}, success |-> FALSE]
BodyOutcomes == BodyReturns \cup {Raise}

\* position in t.parents of the first parent whose flag is succeeded, 0 if
\* there is none: the scan of `for parent_task in _task.parents`
FirstSucceeded(t) ==
    LET hits == {k \in 1..Len(t.parents) : Deref(t.parents[k]).flag = "succeeded"}
    IN IF hits = {} THEN 0 ELSE CHOOSE k \in hits : \A j \in hits : k <= j

\* f(**a, **b, stop_queue_on_error=..., **c) raises TypeError when a keyword
\* is given twice
KwCollision(a, b, c) ==
    \/ a \cap b # {}
    \/ a \cap c # {}
    \/ b \cap c # {}
    \/ "stop_queue_on_error" \in (a \cup b \cup c)

\* mutant: the failure is stored as error_message before it is re-raised
QTaskRun_ErrBeforeRaise(t, outcome, stopOnError, now) ==
    IF outcome.kind # "raise"
    THEN [t EXCEPT !.start_time = now + 1, !.flag = "succeeded",
                   !.output = outcome, !.err = FALSE, !.end_time = now + 2]
    ELSE IF stopOnError
    THEN [t EXCEPT !.start_time = now + 1, !.err = TRUE]
    ELSE [t EXCEPT !.start_time = now + 1, !.err = TRUE, !.flag = "error",
                   !.output = DictVal({}), !.end_time = now + 2]

\* mutant: a run that re-raises puts the task back to not_started
QTaskRun_Resets(t, outcome, stopOnError, now) ==
    IF outcome.kind # "raise"
    THEN [t EXCEPT !.start_time = now + 1, !.flag = "succeeded",
                   !.output = outcome, !.err = FALSE, !.end_time = now + 2]
    ELSE IF stopOnError
    THEN [t EXCEPT !.start_time = now + 1, !.flag = "not_started"]
    ELSE [t EXCEPT !.start_time = now + 1, !.err = TRUE, !.flag = "error",
                   !.output = DictVal({}), !.end_time = now + 2]

\* QTask.run(*args, **kwargs) on task t when the body does `outcome`, with
\* the clock at `now`: the task afterwards.  With stop_queue_on_error the
\* raise leaves before flag, output, error and end time are assigned.
QTaskRun(t, outcome, stopOnError, now) ==
    IF outcome.kind # "raise"
    THEN [t EXCEPT !.start_time = now + 1, !.flag = "succeeded",
                   !.output = outcome, !.err = FALSE, !.end_time = now + 2]
    ELSE IF stopOnError
    THEN [t EXCEPT !.start_time = now + 1]
    ELSE [t EXCEPT !.start_time = now + 1, !.err = TRUE, !.flag = "error",
                   !.output = DictVal({}), !.end_time = now + 2]

\* mutant: the failure of a body is re-raised whatever stop_queue_on_error is
QTaskRunRaises_Always(outcome, stopOnError) == outcome.kind = "raise"

\* mutant: the failure of a body is never re-raised
QTaskRunRaises_Never(outcome, stopOnError) == FALSE

\* whether QTask.run re-raises the failure of the body
QTaskRunRaises(outcome, stopOnError) == outcome.kind = "raise" /\ stopOnError

\* get_time() readings made by one QTask.run
QTaskRunReadings(outcome, stopOnError) ==
    IF QTaskRunRaises(outcome, stopOnError) THEN 1 ELSE 2

\* mutant: `initial` is not emptied after the first task
InitialAt_Every(k, init) == init

\* the value `initial` holds in iteration k of the loop
InitialAt(k, init) == IF k = 1 THEN init ELSE {}

\* The iteration of the for loop of Queue.run for the task at position k of
\* graph g, when its body (if it is reached) does `outcome`.
\*   err     the exception that leaves run, "None" if the loop goes on
\*   task    the task afterwards
\*   kw      kwargs afterwards
\*   call    the invocation of the body, <<>> if there was none
\*   ticks   get_time() readings
Iteration(g, k, init, kw, stopOnError, now, outcome) ==
    LET t == queues[g][k]
        ini == InitialAt(k, init)
        abort(e, kw2) == [err |-> e, task |-> t, kw |-> kw2, call |-> <<>>, ticks |-> 0]
        invoke(src, input, keys, kw2, restamp) ==
            LET after == QTaskRun(t, outcome, stopOnError, now)
                raised == QTaskRunRaises(outcome, stopOnError)
                n == QTaskRunReadings(outcome, stopOnError)
            IN [err |-> IF raised THEN "Exception" ELSE "None",
                task |-> IF restamp /\ ~raised
                         THEN [after EXCEPT !.start_time = now + n + 1]
                         ELSE after,
                kw |-> kw2,
                call |-> <<[task |-> k, src |-> src, input |-> input, keys |-> keys,
                            flagArg |-> IF "flag" \in kw2 THEN "failed"
                                        ELSE IF "flag" \in keys THEN "output"
                                        ELSE "absent",
                            gotInitial |-> ini # {}]>>,
                ticks |-> IF restamp /\ ~raised THEN n + 1 ELSE n]
    IN IF has_parents(t)
       THEN LET first == FirstSucceeded(t)
            IN IF first # 0
               THEN LET po == Deref(t.parents[first]).output
                    IN IF IsDict(po)
                       THEN IF KwCollision(po.keys, ini, kw)
                            THEN abort("TypeError", kw)
                            ELSE invoke(first, po, po.keys \cup ini \cup kw, kw, FALSE)
                       ELSE IF KwCollision({}, ini, kw)
                            THEN abort("TypeError", kw)
                            ELSE invoke(first, po, ini \cup kw, kw, FALSE)
               ELSE LET lastp == Deref(t.parents[Len(t.parents)]).output
                    IN IF InRaises(lastp)
                       THEN abort("TypeError", kw)
                       ELSE LET kw2 == IF ~KeyIn("flag", lastp)
                                       THEN kw \cup {"flag"} ELSE kw
                            IN IF KwCollision({}, ini, kw2)
                               THEN abort("TypeError", kw2)
                               ELSE invoke(0, NoneVal, ini \cup kw2, kw2, TRUE)
       ELSE IF KwCollision({}, ini, kw)
            THEN abort("TypeError", kw)
            ELSE invoke(0, NoneVal, ini \cup kw, kw, FALSE)

\* Queue.run(initial=init, stop_queue_on_error=st) up to the for loop
RunBegin(g, init, st) ==
    /\ pc = "idle"
    /\ nruns < MaxRuns
    /\ nruns' = nruns + 1
    /\ IF ~check(g)
       THEN /\ last' = "NamesError"
            /\ UNCHANGED <<pc, rq, itask, initial, kwargs, stop>>
       ELSE /\ IF Len(queues[g]) = 0
               THEN UNCHANGED <<pc, rq, itask, initial, stop>>
               ELSE /\ pc' = "run"
                    /\ rq' = g
                    /\ itask' = 1
                    /\ initial' = init
                    /\ stop' = st
            /\ kwargs' = {}
            /\ last' = "None"
    /\ calls' = <<>>
    /\ applied' = 0
    /\ UNCHANGED <<TASK_COUNTER, taskObjs, queues, clock>>
    /\ UNCHANGED oldvars

\* one iteration of the for loop of Queue.run
RunStep(outcome) ==
    /\ pc = "run"
    /\ LET it == Iteration(rq, itask, initial, kwargs, stop, clock, outcome)
       IN /\ queues' = [queues EXCEPT ![rq][itask] = it.task]
          /\ calls' = calls \o it.call
          /\ clock' = clock + it.ticks
          /\ last' = it.err
          /\ applied' = 0
          /\ IF it.err # "None" \/ itask = Len(queues[rq])
             THEN \* run raises or returns: its locals are gone
                  /\ pc' = "idle"
                  /\ rq' = 0
                  /\ itask' = 0
                  /\ initial' = {}
                  /\ kwargs' = {}
                  /\ stop' = FALSE
             ELSE /\ pc' = "run"
                  /\ itask' = itask + 1
                  /\ initial' = InitialAt(itask + 1, initial)
                  /\ kwargs' = it.kw
                  /\ UNCHANGED <<rq, stop>>
    /\ UNCHANGED <<TASK_COUNTER, taskObjs, nruns>>
    /\ UNCHANGED oldvars

\* Queue.report(): max() of an empty sequence raises ValueError; the format
\* specification '>' applied to a start or end time that is still None raises
\* TypeError; no task is changed.
ReportError(g) ==
    IF Len(queues[g]) = 0 THEN "ValueError"
    ELSE IF \E k \in 1..Len(queues[g]) :
                queues[g][k].start_time = 0 \/ queues[g][k].end_time = 0
    THEN "TypeError"
    ELSE "None"

report(g) ==
    /\ pc = "idle"
    /\ last' = ReportError(g)
    /\ calls' = <<>>
    /\ applied' = 0
    /\ UNCHANGED <<TASK_COUNTER, taskObjs, queues, runvars>>
    /\ UNCHANGED oldvars

(* ---------------------------- get_infostr ------------------------------ *)
\* A string is modelled by the sequence of its pieces: Piece("Task", n) is
\* 'Task<n>', every other piece is the text itself.
Piece(text, n) == [text |-> text, n |-> n]

MAX_LINE_LENGTH == 123

\* len(str(n)) for the ids that occur
Digits(n) == IF n < 10 THEN 1 ELSE 2

\* len() of a piece
PieceLen(pc_) ==
    IF pc_.text = "Task" THEN 6 + Digits(pc_.n)
    ELSE IF pc_.text = " --> " THEN 5
    ELSE IF pc_.text = "... \n ... --> " THEN 14
    ELSE IF pc_.text = "<Empty Queue>" THEN 13
    ELSE 1

\* len() of a string
RECURSIVE StrLen(_)
StrLen(str) == IF str = <<>> THEN 0 ELSE PieceLen(Head(str)) + StrLen(Tail(str))

\* the inner loop of get_infostr over the parents of task t: 'Task<id>' for
\* each parent, separated by ','
ParentsStr(t) ==
    LET n_parents == Len(t.parents)
    IN IF n_parents = 0 THEN <<>>
       ELSE [m \in 1..(2 * n_parents - 1) |->
                IF m % 2 = 1 THEN Piece("Task", IdOf(t.parents[(m + 1) \div 2]))
                ELSE Piece(",", 0)]

\* the loop of get_infostr(use_task_name=False) from position k of the task
\* list on, with _str and _nlines as they are at that point
RECURSIVE InfoStrLoop(_, _, _, _)
InfoStrLoop(tasks, k, str, nlines) ==
    IF k > Len(tasks) THEN str
    ELSE LET one == str \o <<Piece("Task", k - 1), Piece("(", 0)>>
                        \o ParentsStr(tasks[k]) \o <<Piece(")", 0)>>
             arrow == one \o <<Piece(" --> ", 0)>>
         IN IF k = Len(tasks) THEN one
            ELSE IF StrLen(arrow) > nlines * MAX_LINE_LENGTH
            THEN InfoStrLoop(tasks, k + 1, arrow \o <<Piece("... \n ... --> ", 0)>>, nlines + 1)
            ELSE InfoStrLoop(tasks, k + 1, arrow, nlines)

\* Queue.get_infostr() of a graph whose task list is `tasks`
get_infostr(tasks) ==
    IF Len(tasks) = 0 THEN <<Piece("<Empty Queue>", 0)>>
    ELSE InfoStrLoop(tasks, 1, <<>>, 1)

Next ==
    \/ NewTask
    \/ NewQueue(MaxQueues)
    \/ \E g \in 1..Len(queues), id \in taskObjs : QAppend(g, id)
    \/ \E g \in 1..Len(queues) : \E c \in 1..Len(queues[g]), p \in AllRefs :
          add_parent(g, c, p)
    \/ \E g \in 1..Len(queues) : \E c \in 1..Len(queues[g]), index \in 0..MaxParents :
          remove_parent(g, c, index)
    \/ \E g \in 1..Len(queues) : \E c \in 1..Len(queues[g]), ps \in ListsUpTo(AllRefs, MaxArgs) :
          add_parents(g, c, ps)
    \/ \E g \in 1..Len(queues) : \E c \in 1..Len(queues[g]), id \in taskObjs :
          remove_parent_by_name(g, c, <<"Task", id>>)
    \/ \E g \in 1..Len(queues), init \in InitialArgs, st \in BOOLEAN :
          RunBegin(g, init, st)
    \/ \E outcome \in BodyOutcomes : RunStep(outcome)
    \/ \E g \in 1..Len(queues) : report(g)

Spec == Init /\ [][Next]_vars

(* ------------- a graph of RunTasks fresh tasks, edited and run --------- *)
InitRun ==
    /\ TASK_COUNTER = 0
    /\ taskObjs = 0..(RunTasks - 1)
    /\ queues = << [k \in 1..RunTasks |-> NewQTask(k - 1)] >>
    /\ pc = "idle"
    /\ rq = 0
    /\ itask = 0
    /\ initial = {}
    /\ kwargs = {}
    /\ stop = FALSE
    /\ calls = <<>>
    /\ clock = 0
    /\ nruns = 0
    /\ applied = 0
    /\ last = "None"
    /\ NoOldTasks

NextRun ==
    \/ nruns = 0 /\ \E c \in 1..Len(queues[1]), p \in AllRefs : add_parent(1, c, p)
    \/ nruns = 0 /\ \E c \in 1..Len(queues[1]), index \in 0..MaxParents :
                        remove_parent(1, c, index)
    \/ \E init \in InitialArgs, st \in BOOLEAN : RunBegin(1, init, st)
    \/ \E outcome \in BodyOutcomes : RunStep(outcome)
    \/ report(1)

SpecRun == InitRun /\ [][NextRun]_vars

(* ------------- several graphs built from the same Task objects --------- *)
NextGraphs ==
    \/ NewTask
    \/ NewQueue(MaxGraphs)
    \/ \E g \in 1..Len(queues), id \in taskObjs : QAppend(g, id)
    \/ \E g \in 1..Len(queues) : \E c \in 1..Len(queues[g]), p \in AllRefs :
          add_parent(g, c, p)
    \/ \E g \in 1..Len(queues) : \E c \in 1..Len(queues[g]), index \in 0..MaxParents :
          remove_parent(g, c, index)
    \/ \E g \in 1..Len(queues) : \E c \in 1..Len(queues[g]), ps \in ListsUpTo(AllRefs, MaxArgs) :
          add_parents(g, c, ps)
    \/ \E g \in 1..Len(queues) : \E c \in 1..Len(queues[g]), id \in taskObjs :
          remove_parent_by_name(g, c, <<"Task", id>>)

SpecGraphs == Init /\ [][NextGraphs]_vars

(* ------------- a graph of RunTasks fresh tasks, edited only ------------ *)
NextParents ==
    \/ \E c \in 1..Len(queues[1]), p \in AllRefs : add_parent(1, c, p)
    \/ \E c \in 1..Len(queues[1]), index \in 0..MaxParents : remove_parent(1, c, index)
    \/ \E c \in 1..Len(queues[1]), ps \in ListsUpTo(AllRefs, MaxArgs) : add_parents(1, c, ps)

SpecParents == InitRun /\ [][NextParents]_vars

(* ------------- a graph that is edited and run, then built again -------- *)
\* a, b = Task(f), Task(f); q = Queue([a, b])
InitRebuild ==
    /\ TASK_COUNTER = 0
    /\ taskObjs = 0..(MaxTasks - 1)
    /\ queues = << [k \in 1..MaxTasks |-> NewQTask(k - 1)] >>
    /\ pc = "idle"
    /\ rq = 0
    /\ itask = 0
    /\ initial = {}
    /\ kwargs = {}
    /\ stop = FALSE
    /\ calls = <<>>
    /\ clock = 0
    /\ nruns = 0
    /\ applied = 0
    /\ last = "None"
    /\ NoOldTasks

NextRebuild ==
    \/ nruns = 0 /\ \E c \in 1..Len(queues[1]), p \in AllRefs : add_parent(1, c, p)
    \/ \E init \in InitialArgs, st \in BOOLEAN : RunBegin(1, init, st)
    \/ \E outcome \in BodyOutcomes : RunStep(outcome)
    \/ NewQueue(MaxGraphs)

SpecRebuild == InitRebuild /\ [][NextRebuild]_vars

(* ============ the older pair: task.Task and queue.Queue ================ *)
\* task.Task.__init__(function, name=None): id = next(task_id)
NewOldTask(id) ==
    [id |-> id, parents |-> <<>>, flag |-> "not_started", output |-> NoneVal,
     err |-> FALSE, start_time |-> 0, end_time |-> 0]

\* task.Task.name with no name given: f'Task{id}'
OldNameOf(t) == <<"Task", t.id>>

\* The error task.Task.add_parent(parent_task) raises on task c for the task
\* p (positions in otasks), "None" when it returns.
OldAddParentError(c, p) ==
    IF \E n \in 1..Len(otasks[c].parents) : otasks[c].parents[n] = p THEN "ValueError"
    ELSE IF otasks[c].id = otasks[p].id THEN "SelfReference"
    ELSE IF otasks[c].id < otasks[p].id /\ has_parents(otasks[p]) THEN "Ordering"
    ELSE "None"

\* task.Task.add_parent
old_add_parent(c, p) ==
    /\ opc = "idle"
    /\ Len(otasks[c].parents) < MaxParents
    /\ olast' = OldAddParentError(c, p)
    /\ otasks' = IF OldAddParentError(c, p) = "None"
                 THEN [otasks EXCEPT ![c].parents = Append(@, p)]
                 ELSE otasks
    /\ ocalls' = <<>>
    /\ UNCHANGED <<opc, oitask, oflag, oinitial, oclock, oruns>>
    /\ UNCHANGED corevars

\* task.Task.remove_parent(index), index >= 0
old_remove_parent(c, index) ==
    /\ opc = "idle"
    /\ IF index < Len(otasks[c].parents)
       THEN /\ otasks' = [otasks EXCEPT ![c].parents = Pop(@, index)]
            /\ olast' = "None"
       ELSE /\ otasks' = otasks
            /\ olast' = "IndexError"
    /\ ocalls' = <<>>
    /\ UNCHANGED <<opc, oitask, oflag, oinitial, oclock, oruns>>
    /\ UNCHANGED corevars

\* what a function of the older pair does when it is called: returns
\* (True, {...}), returns (False, {...}) or raises
OldBodyOutcomes == {TupleVal(TRUE), TupleVal(FALSE), Raise}

\* task.Task.__call__(parent_success, input_data) on task t when the function
\* does `outcome`, with the clock at `now`: the flag setter turns True into
\* succeeded and False into failed.
OldCall(t, outcome, now) ==
    IF outcome.kind = "raise"
    THEN [t EXCEPT !.start_time = now + 1, !.end_time = now + 2, !.flag = "error",
                   !.output = DictVal({}), !.err = TRUE]
    ELSE [t EXCEPT !.start_time = now + 1, !.end_time = now + 2,
                   !.flag = IF outcome.success THEN "succeeded" ELSE "failed",
                   !.output = DictVal({}), !.err = FALSE]

\* queue.Queue.check()
old_check ==
    \A j, k \in 1..Len(otasks) : j # k => OldNameOf(otasks[j]) # OldNameOf(otasks[k])

\* The loop `for parent_task in task.parents` of queue.Queue.run for the task
\* at position k, from its n-th parent on: every parent whose flag is
\* succeeded invokes the task (the loop has no break); outs[n] is what the
\* function does in the invocation from the n-th parent.
\*   task   the task so far      calls  the invocations so far
\*   ticks  get_time() readings so far
RECURSIVE OldParentScan(_, _, _, _)
OldParentScan(k, n, outs, acc) ==
    IF n > Len(acc.task.parents) THEN acc
    ELSE LET parent_task == otasks[acc.task.parents[n]]
         IN IF parent_task.flag = "succeeded"
            THEN OldParentScan(k, n + 1, outs,
                     [task |-> OldCall(acc.task, outs[n], oclock + acc.ticks),
                      calls |-> Append(acc.calls,
                                       [task |-> k, src |-> n, flagArg |-> parent_task.flag,
                                        payload |-> parent_task.output]),
                      ticks |-> acc.ticks + 2])
            ELSE OldParentScan(k, n + 1, outs, acc)

\* mutant: the local `flag` is set to none in every iteration, not only in
\* the first
OldIteration_FlagNotCarried(k, outs) ==
    LET t == otasks[k]
        input_data == IF k = 1 THEN oinitial ELSE {}
        flag == "none"
        direct(f) == [task |-> k, src |-> 0, flagArg |-> f, payload |-> DictVal(input_data)]
    IN IF has_parents(t)
       THEN LET scan == OldParentScan(k, 1, outs, [task |-> t, calls |-> <<>>, ticks |-> 0])
            IN IF scan.calls # <<>>
               THEN [task |-> scan.task, calls |-> scan.calls, flag |-> flag,
                     ticks |-> scan.ticks]
               ELSE [task |-> [OldCall(t, outs[1], oclock) EXCEPT !.start_time = oclock + 3],
                     calls |-> <<direct("failed")>>, flag |-> "failed", ticks |-> 3]
       ELSE [task |-> OldCall(t, outs[1], oclock), calls |-> <<direct(flag)>>,
             flag |-> flag, ticks |-> 2]

\* The iteration of the for loop of queue.Queue.run for the task at position
\* k: the task afterwards, the invocations made, the local `flag` afterwards
\* and the get_time() readings.
OldIteration(k, outs) ==
    LET t == otasks[k]
        input_data == IF k = 1 THEN oinitial ELSE {}
        flag == IF k = 1 THEN "none" ELSE oflag
        direct(f) == [task |-> k, src |-> 0, flagArg |-> f, payload |-> DictVal(input_data)]
    IN IF has_parents(t)
       THEN LET scan == OldParentScan(k, 1, outs, [task |-> t, calls |-> <<>>, ticks |-> 0])
            IN IF scan.calls # <<>>
               THEN [task |-> scan.task, calls |-> scan.calls, flag |-> flag,
                     ticks |-> scan.ticks]
               ELSE [task |-> [OldCall(t, outs[1], oclock) EXCEPT !.start_time = oclock + 3],
                     calls |-> <<direct("failed")>>, flag |-> "failed", ticks |-> 3]
       ELSE [task |-> OldCall(t, outs[1], oclock), calls |-> <<direct(flag)>>,
             flag |-> flag, ticks |-> 2]

\* queue.Queue.run(initial_input_data=init) up to the for loop
OldRunBegin(init) ==
    /\ opc = "idle"
    /\ oruns < MaxRuns
    /\ oruns' = oruns + 1
    /\ IF ~old_check
       THEN /\ olast' = "NamesError"
            /\ UNCHANGED <<opc, oitask, oinitial>>
       ELSE /\ IF Len(otasks) = 0
               THEN UNCHANGED <<opc, oitask, oinitial>>
               ELSE /\ opc' = "run"
                    /\ oitask' = 1
                    /\ oinitial' = init
            /\ olast' = "None"
    /\ ocalls' = <<>>
    /\ UNCHANGED <<otasks, oflag, oclock>>
    /\ UNCHANGED corevars

\* one iteration of the for loop of queue.Queue.run
OldRunStep(outs) ==
    /\ opc = "run"
    /\ LET it == OldIteration(oitask, outs)
       IN /\ otasks' = [otasks EXCEPT ![oitask] = it.task]
          /\ ocalls' = ocalls \o it.calls
          /\ oclock' = oclock + it.ticks
          /\ IF oitask = Len(otasks)
             THEN \* run returns: its locals are gone
                  /\ opc' = "idle"
                  /\ oitask' = 0
                  /\ oflag' = "none"
                  /\ oinitial' = {}
             ELSE /\ oitask' = oitask + 1
                  /\ oflag' = it.flag
                  /\ UNCHANGED <<opc, oinitial>>
    /\ olast' = "None"
    /\ UNCHANGED oruns
    /\ UNCHANGED corevars

\* t0, t1, t2 = Task(f), Task(f), Task(f); q = queue.Queue([t0, t1, t2])
InitOld ==
    /\ TASK_COUNTER = 0
    /\ taskObjs = {}
    /\ queues = <<>>
    /\ pc = "idle"
    /\ rq = 0
    /\ itask = 0
    /\ initial = {}
    /\ kwargs = {}
    /\ stop = FALSE
    /\ calls = <<>>
    /\ clock = 0
    /\ nruns = 0
    /\ applied = 0
    /\ last = "None"
    /\ otasks = [k \in 1..OldTasks |-> NewOldTask(k - 1)]
    /\ opc = "idle"
    /\ oitask = 0
    /\ oflag = "none"
    /\ oinitial = {}
    /\ ocalls = <<>>
    /\ oclock = 0
    /\ oruns = 0
    /\ olast = "None"

NextOld ==
    \/ oruns = 0 /\ \E c, p \in 1..Len(otasks) : old_add_parent(c, p)
    \/ oruns = 0 /\ \E c \in 1..Len(otasks), index \in 0..MaxParents : old_remove_parent(c, index)
    \/ \E init \in InitialArgs : OldRunBegin(init)
    \/ \E outs \in [1..MaxParents -> OldBodyOutcomes] : OldRunStep(outs)

SpecOld == InitOld /\ [][NextOld]_vars

(* ======================= properties of Queue.run ======================= *)
\* the task the loop of run has reached (pc = "run")
Reached == queues[rq][itask]

\* the flag of the k-th parent of t
ParentFlag(t, k) == Deref(t.parents[k]).flag

\* the step invoked a body: QTask.run got to `self._run(*args, **kwargs)`
Invoked == Len(calls') = Len(calls) + 1

\* the invocation the step made
TheCall == calls'[Len(calls')]

\* C1: whenever run reaches a task with parents of which at least one has
\* flag succeeded, the body of the task is invoked exactly once in that
\* iteration, with the output of the first parent (in attachment order)
\* whose flag is succeeded.
C1_FirstSuccessWins ==
    [][(pc = "run" /\ \E k \in 1..Len(Reached.parents) : ParentFlag(Reached, k) = "succeeded")
        => /\ Invoked
           /\ TheCall.task = itask
           /\ \E k \in 1..Len(Reached.parents) :
                 /\ ParentFlag(Reached, k) = "succeeded"
                 /\ \A j \in 1..(k - 1) : ParentFlag(Reached, j) # "succeeded"
                 /\ TheCall.src = k
                 /\ TheCall.input = Deref(Reached.parents[k]).output]_vars

\* C2: whenever run reaches a task that has parents none of which has flag
\* succeeded (error or not started), the body is still invoked, with flag
\* failed and the initial payload, and run does not abort in that iteration.
C2_AllParentsFailedStillRuns ==
    [][(/\ pc = "run"
        /\ has_parents(Reached)
        /\ \A k \in 1..Len(Reached.parents) : ParentFlag(Reached, k) # "succeeded")
        => /\ Invoked
           /\ TheCall.task = itask
           /\ TheCall.src = 0
           /\ TheCall.flagArg = "failed"
           /\ TheCall.keys = {"flag"} \cup initial
           /\ last' # "TypeError"]_vars

C4_StopOnError ==
    [][(pc = "run" /\ stop /\ RunStep(Raise) /\ Invoked)
        => /\ last' = "Exception"
           /\ pc' = "idle"
           /\ \A j \in (itask + 1)..Len(queues[rq]) :
                 /\ queues'[rq][j] = queues[rq][j]
                 /\ nruns = 1 => queues'[rq][j].flag = "not_started"
           /\ \A n \in 1..Len(calls') : calls'[n].task <= itask]_vars

\* the second of three tasks raised under stop_queue_on_error
C4_Witness ==
    /\ last = "Exception" /\ pc = "idle" /\ nruns = 1
    /\ Len(queues) = 1 /\ Len(queues[1]) = 3
    /\ Len(calls) = 2
    /\ queues[1][1].flag = "succeeded"
    /\ queues[1][3].flag = "not_started"

\* two tasks of graph g have the same name
SharedName(g) ==
    \E j, k \in 1..Len(queues[g]) :
        j # k /\ NameOf(queues[g][j]) = NameOf(queues[g][k])

\* C5: a call of run on a graph in which two tasks share a name fails before
\* any body is invoked and leaves every task (flag, output, error, times) as
\* it was.
C5_NamesCheckedBeforeRun ==
    [][\A g \in 1..Len(queues) :
          (SharedName(g) /\ \E init \in InitialArgs, st \in BOOLEAN : RunBegin(g, init, st))
          => /\ last' = "NamesError"
             /\ pc' = "idle"
             /\ queues' = queues
             /\ calls' = <<>>
             /\ clock' = clock]_vars

\* run was refused on a graph one of whose tasks had already been run
C5_Witness ==
    /\ last = "NamesError"
    /\ \E g \in 1..Len(queues) :
          /\ SharedName(g)
          /\ \E k \in 1..Len(queues[g]) : queues[g][k].flag # "not_started"

(* ======================= properties of the parents ===================== *)
\* the tasks of all graphs, as (graph, position) pairs
AllTasks == UNION {{<<g, k>> : k \in 1..Len(queues[g])} : g \in 1..Len(queues)}

\* r is an element of the task list of graph g
ElementOf(r, g) == r.q = g /\ r.i \in 1..Len(queues[g])

\* no task is listed among its own parents
NoSelfParent ==
    \A gk \in AllTasks :
        \A n \in 1..Len(queues[gk[1]][gk[2]].parents) :
            queues[gk[1]][gk[2]].parents[n] # QRef(gk[1], gk[2])

\* C6, as claimed: add_parent(p) with p.id = T.id always fails with the
\* self-reference error and leaves T.parents unchanged.
C6_SameIdAlwaysSelfReference ==
    [][\A gk \in AllTasks : \A p \in AllRefs :
          (IdOf(p) = queues[gk[1]][gk[2]].id /\ add_parent(gk[1], gk[2], p))
          => (last' = "SelfReference" /\ queues' = queues)]_vars

\* C6, amended: add_parent(p) with p.id = T.id fails with the self-reference
\* error when p is an element of T's graph and with KeyError when it is not
\* (the unwrapped Task object, a task of another graph); T.parents is
\* unchanged in both cases, and no task is ever listed among its own parents.
C6_SameIdRejected ==
    /\ NoSelfParent
    /\ [][/\ NoSelfParent'
          /\ \A gk \in AllTasks : \A p \in AllRefs :
                (IdOf(p) = queues[gk[1]][gk[2]].id /\ add_parent(gk[1], gk[2], p))
                => /\ queues' = queues
                   /\ last' = IF ElementOf(p, gk[1]) THEN "SelfReference" ELSE "KeyError"]_vars

\* add_parent was refused with the self-reference error
C6_Witness ==
    /\ last = "SelfReference"
    /\ \E gk \in AllTasks : Len(queues[gk[1]][gk[2]].parents) > 0

\* every parent of every task of a graph is an element of that graph
ParentsAreElements ==
    \A gk \in AllTasks :
        \A n \in 1..Len(queues[gk[1]][gk[2]].parents) :
            ElementOf(queues[gk[1]][gk[2]].parents[n], gk[1])

\* C7: every parent of every task of a graph is an element of that graph's
\* task list; add_parent of a task that is not an element of the graph (the
\* unwrapped Task object, a task of another graph) raises KeyError and leaves
\* the parents unchanged.
C7_GraphMembership ==
    /\ ParentsAreElements
    /\ [][/\ ParentsAreElements'
          /\ \A gk \in AllTasks : \A p \in AllRefs :
                (~ElementOf(p, gk[1]) /\ add_parent(gk[1], gk[2], p))
                => (last' = "KeyError" /\ queues' = queues)]_vars

\* add_parent was refused with KeyError while two graphs with parents exist
C7_Witness ==
    /\ last = "KeyError"
    /\ Len(queues) = 2
    /\ \A g \in 1..2 : \E k \in 1..Len(queues[g]) : Len(queues[g][k].parents) > 0

\* C8: no parents list contains the same task twice.
C8_NoDuplicateParents ==
    \A gk \in AllTasks :
        LET ps == queues[gk[1]][gk[2]].parents
        IN \A m, n \in 1..Len(ps) : m # n => ps[m] # ps[n]

\* C9: a task whose body returned a result reporting failure, (False, data),
\* has flag failed.
C9_ReportedFailureIsFailed ==
    \A gk \in AllTasks :
        queues[gk[1]][gk[2]].output = TupleVal(FALSE)
        => queues[gk[1]][gk[2]].flag = "failed"

\* every flag is one of the four task states (never the sentinel none)
FlagsAreTaskStates ==
    \A gk \in AllTasks :
        queues[gk[1]][gk[2]].flag \in {"not_started", "succeeded", "failed", "error"}

\* C10: a task whose flag has left not_started never returns to not_started,
\* and the only flags a task holds are not_started, succeeded, failed, error.
C10_FlagStateMachine ==
    /\ FlagsAreTaskStates
    /\ [][/\ FlagsAreTaskStates'
          /\ \A gk \in AllTasks :
                queues[gk[1]][gk[2]].flag # "not_started"
                => queues'[gk[1]][gk[2]].flag # "not_started"]_vars

\* a task that was run before is run again, with stop_queue_on_error, and raises
C10_Witness ==
    /\ nruns = 2 /\ last = "Exception"
    /\ \E gk \in AllTasks :
          /\ queues[gk[1]][gk[2]].flag = "succeeded"
          /\ queues[gk[1]][gk[2]].start_time > queues[gk[1]][gk[2]].end_time
          /\ queues[gk[1]][gk[2]].end_time > 0

(* ======================= timestamps and report ========================= *)
\* C11: no task that is not executing has start_time set and end_time absent
\* (a body executes within one step, so no task executes in a state).
C11_EndTimeRecorded ==
    \A gk \in AllTasks :
        queues[gk[1]][gk[2]].start_time # 0 => queues[gk[1]][gk[2]].end_time # 0

\* C12: report() fails explicitly on a graph with no tasks; on every
\* non-empty graph, whatever the states of its tasks, it completes and changes
\* no task.
C12_ReportCompletes ==
    [][\A g \in 1..Len(queues) :
          report(g) => /\ last' = IF Len(queues[g]) = 0 THEN "ValueError" ELSE "None"
                       /\ queues' = queues]_vars

(* ======================= editing the parents =========================== *)
\* the positions in the parents of task c of graph g whose parent has the name
NamedParents(g, c, name) ==
    {n \in 1..Len(queues[g][c].parents) :
        NameOf(Deref(queues[g][c].parents[n])) = name}

\* C13: remove_parent_by_name(name) removes the first attached parent with
\* that name and keeps the others in order; when no attached parent has the
\* name it fails with the not-found error and leaves the parents unchanged.
C13_RemoveByName ==
    [][\A gk \in AllTasks : \A id \in taskObjs :
          remove_parent_by_name(gk[1], gk[2], <<"Task", id>>)
          => LET hits == NamedParents(gk[1], gk[2], <<"Task", id>>)
                 ps == queues[gk[1]][gk[2]].parents
             IN IF hits = {}
                THEN last' = "IndexError" /\ queues' = queues
                ELSE /\ last' = "None"
                     /\ queues'[gk[1]][gk[2]].parents =
                           Pop(ps, (CHOOSE n \in hits : \A m \in hits : n <= m) - 1)]_vars

\* the positions of the arguments ps that add_parent refuses on task c of
\* graph g
Refused(g, c, ps) == {n \in 1..Len(ps) : AddParentError(g, c, ps[n]) # "None"}

\* C14: add_parents applies add_parent to its arguments in order and stops at
\* the first failure: when the k-th argument is the first one refused, the
\* first k-1 arguments have been appended in the given order, no argument from
\* the k-th on has been appended, and the error of the k-th is raised; when
\* none is refused all are appended.  No other task is changed.
C14_AddParentsStopsAtFirstFailure ==
    [][\A gk \in AllTasks : \A ps \in ListsUpTo(AllRefs, MaxArgs) :
          add_parents(gk[1], gk[2], ps)
          => LET bad == Refused(gk[1], gk[2], ps)
                 k == IF bad = {} THEN Len(ps) + 1
                      ELSE CHOOSE n \in bad : \A m \in bad : n <= m
                 old == queues[gk[1]][gk[2]].parents
             IN /\ queues'[gk[1]][gk[2]].parents = old \o SubSeq(ps, 1, k - 1)
                /\ last' = IF bad = {} THEN "None"
                           ELSE AddParentError(gk[1], gk[2], ps[k])
                /\ \A hj \in AllTasks : hj # gk => queues'[hj[1]][hj[2]] = queues[hj[1]][hj[2]]
                /\ queues'[gk[1]][gk[2]] = [queues[gk[1]][gk[2]] EXCEPT !.parents = old \o SubSeq(ps, 1, k - 1)]]_vars

\* add_parents raised after it had appended its first argument
C14_Witness ==
    /\ last # "None"
    /\ applied = 1

\* C15: after every successful add_parent(p) on a task, remove_parent at the
\* last index of that task is within range and gives back the parents list
\* the task had before the add, so that the task list and its get_infostr
\* rendering are what they were; the add changes no other task.
C15_AddRemoveRoundTrip ==
    [][\A gk \in AllTasks : \A p \in AllRefs :
          (add_parent(gk[1], gk[2], p) /\ last' = "None")
          => LET added == queues'[gk[1]][gk[2]].parents
                 index == Len(added) - 1
                 restored == [queues'[gk[1]] EXCEPT ![gk[2]].parents = Pop(added, index)]
             IN /\ index >= 0 /\ index < Len(added)
                /\ restored = queues[gk[1]]
                /\ get_infostr(restored) = get_infostr(queues[gk[1]])
                /\ get_infostr(queues'[gk[1]]) # get_infostr(queues[gk[1]])
                /\ \A h \in 1..Len(queues) : h # gk[1] => queues'[h] = queues[h]]_vars

\* a parent has just been added to a task that had a parent already
C15_Witness ==
    /\ last = "None"
    /\ applied = 1
    /\ \E gk \in AllTasks : Len(queues[gk[1]][gk[2]].parents) = 2

(* ======================= arguments of the bodies ======================= *)
\* C16: a task that is fed from a succeeded parent is never invoked with the
\* flag value failed as its flag argument.
C16_ParentFedNeverFailedFlag ==
    [][(pc = "run" /\ Invoked /\ TheCall.src # 0) => TheCall.flagArg # "failed"]_vars

\* the keys an `initial` argument can hold
InitialKeys == UNION InitialArgs

\* C17: the initial keyword arguments of run are passed to the first task
\* only: the invocation of the task at index 0 receives them, and no
\* invocation of a task at a greater index does, whether the task is fed from
\* a parent, runs with all parents failed or has no parents.
C17_InitialToFirstTaskOnly ==
    [][(pc = "run" /\ Invoked)
        => IF itask = 1
           THEN initial \subseteq TheCall.keys /\ TheCall.gotInitial = (initial # {})
           ELSE TheCall.keys \cap InitialKeys = {} /\ ~TheCall.gotInitial]_vars

\* a run with initial arguments invoked the first task with them, the second
\* from a parent and the third with all parents failed
C17_Witness ==
    /\ pc = "idle" /\ Len(calls) = 3
    /\ calls[1].gotInitial /\ "input_data" \in calls[1].keys
    /\ calls[2].src # 0
    /\ calls[3].src = 0 /\ calls[3].flagArg = "failed"
    /\ has_parents(queues[1][3])

(* ======================= the older queue.Queue.run ===================== *)
\* C18: in queue.Queue.run every iteration of the loop invokes its task
\* exactly once; a task with parents whose flag is succeeded is invoked from
\* the first of them in attachment order only.
C18_OldOnceEach ==
    [][opc = "run"
        => /\ Len(ocalls') = Len(ocalls) + 1
           /\ ocalls'[Len(ocalls')].task = oitask
           /\ \A n \in 1..Len(otasks[oitask].parents) :
                 (/\ otasks[otasks[oitask].parents[n]].flag = "succeeded"
                  /\ \A m \in 1..(n - 1) : otasks[otasks[oitask].parents[m]].flag # "succeeded")
                 => ocalls'[Len(ocalls')].src = n]_vars

(* ======================= ids ============================================ *)
\* C19: in every graph the task at position i (counted from 0) has id i.
C19_IdIsPosition ==
    \A gk \in AllTasks : queues[gk[1]][gk[2]].id = gk[2] - 1

(* ======================= the order of parents ========================== *)
\* C20, as claimed: in every state, for every task c and every p in
\* c.parents, p has no parents of its own or p.id < c.id.
C20_TopologicalOrder ==
    \A gk \in AllTasks :
        \A n \in 1..Len(queues[gk[1]][gk[2]].parents) :
            LET p == queues[gk[1]][gk[2]].parents[n]
            IN ~has_parents(Deref(p)) \/ IdOf(p) < queues[gk[1]][gk[2]].id

\* C20, amended: the condition holds at the time of the call: every parent p
\* that a step appends to the parents of a task c has, in the state the call
\* is made in, no parents of its own or p.id < c.id.
C20_OrderCheckedWhenAdded ==
    [][\A gk \in AllTasks :
          LET old == queues[gk[1]][gk[2]].parents
              new == queues'[gk[1]][gk[2]].parents
          IN \A n \in (Len(old) + 1)..Len(new) :
                ~has_parents(Deref(new[n])) \/ IdOf(new[n]) < queues[gk[1]][gk[2]].id]_vars

\* a task got as parent a task constructed before it that has a parent itself
C20_Witness ==
    /\ last = "None"
    /\ applied > 0
    /\ \E gk \in AllTasks :
          LET ps == queues[gk[1]][gk[2]].parents
          IN /\ ps # <<>>
             /\ has_parents(Deref(ps[Len(ps)]))
             /\ IdOf(ps[Len(ps)]) < queues[gk[1]][gk[2]].id

\* C21: for a parent p that is an element of the graph and whose id differs
\* from the child's, child.add_parent(p) raises the ordering error exactly
\* when child.id < p.id and p has at least one parent at the time of the
\* call, and then changes nothing; in every other such case p is appended at
\* the end of child.parents and nothing else changes.
C21_OrderingPrecondition ==
    [][\A gk \in AllTasks : \A p \in AllRefs :
          (/\ ElementOf(p, gk[1])
           /\ IdOf(p) # queues[gk[1]][gk[2]].id
           /\ add_parent(gk[1], gk[2], p))
          => IF queues[gk[1]][gk[2]].id < IdOf(p) /\ Len(Deref(p).parents) >= 1
             THEN last' = "Ordering" /\ queues' = queues
             ELSE /\ last' = "None"
                  /\ queues' = [queues EXCEPT ![gk[1]][gk[2]] =
                                   [@ EXCEPT !.parents = @ \o <<p>>]]]_vars

\* add_parent refused a parent for its order while another parent, one
\* without parents, is attached to a task constructed before it
C21_Witness ==
    /\ last = "Ordering"
    /\ \E gk \in AllTasks :
          \E n \in 1..Len(queues[gk[1]][gk[2]].parents) :
              LET p == queues[gk[1]][gk[2]].parents[n]
              IN IdOf(p) > queues[gk[1]][gk[2]].id

(* ======================= the flag of queue.Queue.run =================== *)
\* an earlier iteration of the executing queue.Queue.run found a task all of
\* whose parents had failed
OldAllFailedBefore ==
    \E n \in 1..Len(ocalls) : ocalls[n].src = 0 /\ has_parents(otasks[ocalls[n].task])

\* C22: in queue.Queue.run a task with no parents at an index greater than 0
\* is invoked once, with the empty mapping as input payload and, as flag
\* argument, the value the local `flag` held at the end of the previous
\* iteration: failed once an earlier task of the same run went through the
\* all-parents-failed case, the sentinel none otherwise.
C22_OldCarriedFlag ==
    [][(opc = "run" /\ oitask > 1 /\ ~has_parents(otasks[oitask]))
        => /\ Len(ocalls') = Len(ocalls) + 1
           /\ ocalls'[Len(ocalls')] =
                 [task |-> oitask, src |-> 0, flagArg |-> oflag, payload |-> DictVal({})]
           /\ oflag = IF OldAllFailedBefore THEN "failed" ELSE "none"]_vars

\* the third task, which has no parents, was invoked with the flag failed that
\* the second task left behind
C22_Witness ==
    /\ Len(otasks) = 3 /\ ~has_parents(otasks[3]) /\ has_parents(otasks[2])
    /\ \E n \in 1..Len(ocalls) :
          ocalls[n] = [task |-> 3, src |-> 0, flagArg |-> "failed", payload |-> DictVal({})]

(* ======================= building a graph again ======================== *)
\* C23: Queue(tasks) gives every task of the new graph a fresh state (flag
\* not_started, no parents, no output, error or timestamps) and changes
\* neither the Task objects nor the parents and run-state of the tasks of the
\* graphs built earlier.
C23_RebuildIsFresh ==
    [][Len(queues') = Len(queues) + 1
        => /\ taskObjs' = taskObjs
           /\ \A g \in 1..Len(queues) : queues'[g] = queues[g]
           /\ \A k \in 1..Len(queues'[Len(queues')]) :
                 LET t == queues'[Len(queues')][k]
                 IN /\ t.id \in taskObjs
                    /\ t.flag = "not_started"
                    /\ t.parents = <<>>
                    /\ t.output = NoneVal
                    /\ ~t.err
                    /\ t.start_time = 0 /\ t.end_time = 0]_vars

\* a second graph was built from the tasks of a graph that has parents and
\* has been run
C23_Witness ==
    /\ Len(queues) = 2 /\ Len(queues[2]) = 2
    /\ queues[2][1].id = queues[1][2].id
    /\ has_parents(queues[1][2])
    /\ queues[1][2].flag = "succeeded" /\ queues[1][2].end_time > 0
    /\ queues[2][1] = NewQTask(queues[1][2].id)

\* C24: any two distinct tasks of the same graph have distinct ids.
C24_DistinctIds ==
    \A g \in 1..Len(queues) :
        \A j, k \in 1..Len(queues[g]) : j # k => queues[g][j].id # queues[g][k].id

(* ======================= repeated runs ================================= *)
\* C25: whenever run feeds a task from a parent, that parent was invoked
\* earlier in the same call of run.
C25_ParentRanInSameRun ==
    [][(pc = "run" /\ Invoked /\ TheCall.src # 0)
        => \E n \in 1..Len(calls) :
              calls[n].task = Reached.parents[TheCall.src].i]_vars

\* C26: in every state a task's error_message is present if and only if its
\* flag is error, and a task whose flag is error has the empty mapping as
\* output.
C26_ErrorIffFlagError ==
    \A gk \in AllTasks :
        LET t == queues[gk[1]][gk[2]]
        IN /\ t.err <=> t.flag = "error"
           /\ t.flag = "error" => t.output = DictVal({})

\* a task that ended a first run with flag error raised again in a second
\* run, under stop_queue_on_error
C26_Witness ==
    /\ nruns = 2 /\ last = "Exception"
    /\ \E gk \in AllTasks :
          /\ queues[gk[1]][gk[2]].flag = "error"
          /\ queues[gk[1]][gk[2]].err
          /\ queues[gk[1]][gk[2]].end_time > 0
          /\ queues[gk[1]][gk[2]].start_time > queues[gk[1]][gk[2]].end_time

\* C27: for every task whose invocation has completed, start_time was read
\* before end_time: after every iteration of run that invoked the body and
\* raised nothing, the task's start_time precedes its end_time.
C27_StartPrecedesEnd ==
    [][(pc = "run" /\ Invoked /\ last' = "None")
        => queues'[rq][itask].start_time < queues'[rq][itask].end_time]_vars
====
